---- MODULE Spec2Model ----
(***************************************************************************)
(* State-machine model of the sui-cast client core:                        *)
(*   - useDocumentEventStream.handleEvent  (src/sui-cast/src/lib/surflux.ts)*)
(*   - useSurfluxStream connect/disconnect (src/sui-cast/src/lib/surflux.ts)*)
(*   - DocumentsPage.uploadToWalrus        (src/sui-cast/src/App.tsx)       *)
(* Strings that the code searches with String.includes are modelled as     *)
(* sequences of tokens; includes is contiguous-subsequence search.         *)
(* JavaScript values are tagged records so that mixed types compare.       *)
(***************************************************************************)
EXTENDS Naturals, Integers, Sequences, FiniteSets, TLC

VARIABLES
    \* ---- useDocumentEventStream (the reducer) ----
    processedTxHashes,   \* Set<string>, kept as a sequence in insertion order (JS Set order)
    recentEvents,        \* ParsedDocumentEvent[], index 1 is the newest
    isFirstConnection,   \* the warm-up flag (useRef(true))
    warmupTimers,        \* the pending setTimeout(..., 2000) callbacks, oldest first: their delays
    callbacks,           \* log of onDocumentUploaded / onDocumentVoted invocations
    handled,             \* history: every tx_hash that got past the dedup step, in order
    lastCall,            \* history: the latest handleEvent call (n counts the calls, repeat: same event as the call before)
    feedPos,             \* environment: how many distinct transactions the server has emitted
    \* ---- useSurfluxStream (the stream client) ----
    apiKey,              \* SURFLUX_API_KEY of the build
    mounted,             \* the hook's effect has run at least once
    enabled,             \* the enabled option of the current render
    status,              \* ConnectionStatus
    lastError,           \* Error | null
    eventSourceRef,      \* id of the channel held in eventSourceRef.current, 0 for null
    reconnectTimeoutRef, \* id of the timer held in reconnectTimeoutRef.current, 0 for null
    reconnectAttempts,   \* reconnectAttempts.current
    channels,            \* the EventSource objects not closed: id, readyState, closure's enabled
    created,             \* number of EventSource objects created so far (ids are 1..created)
    timers,              \* pending reconnect setTimeout callbacks
    delays,              \* history: the backoff delays scheduled since the last successful open
    lastOp,              \* history: the latest stream-client operation, and the channel held when it began
                         \* (a message also records whether it follows a dropped one, an error
                         \* the operation before it)
    \* ---- DocumentsPage.uploadToWalrus ----
    upPc,                \* where the async call stands: idle, running (between requests),
                         \* awaiting (a fetch is in flight), returned, thrown
    upIdx,               \* position of the for loop in PROXY_ENDPOINTS
    upLastError,         \* the local lastError
    upResult,            \* the returned blob id, or the thrown error
    upRequests,          \* history: the endpoints fetch was called with, in order
    upCalls,             \* history: number of uploadToWalrus calls so far
    answers,             \* environment: what the mirrors asked so far in this call answered
    walrusUploading,     \* component state
    walrusUploadStatus,  \* component state
    walrusError,         \* component state
    walrusBlobId,        \* uploadForm.walrusBlobId
    selectedFile,        \* component state: 0 for null, else the number of the chosen file
    docPc,               \* where handleUploadDocument stands: idle, submitting (uploadDoc awaited)
    submitted,           \* history: what uploadDoc was called with, and the file selected then
    ledger               \* history: the blob ids of the uploadDoc calls that succeeded

reducerVars == <<processedTxHashes, recentEvents, isFirstConnection, warmupTimers,
                 callbacks, handled, lastCall>>
streamVars == <<apiKey, mounted, enabled, status, lastError, eventSourceRef, reconnectTimeoutRef,
                reconnectAttempts, channels, created, timers, delays, lastOp>>
formVars == <<selectedFile, docPc, submitted, ledger>>
uploadVars == <<upPc, upIdx, upLastError, upResult, upRequests, upCalls, answers,
                walrusUploading, walrusUploadStatus, walrusError, walrusBlobId, formVars>>
vars == <<reducerVars, feedPos, streamVars, uploadVars>>

\* ------------------------------------------------------------------ bounds
MaxTx == 2          \* distinct transaction hashes fed to the reducer in SpecReducer
MaxEvents == 3      \* handleEvent calls in one SpecReducer behaviour
MaxBulk == 1003     \* transactions of the backlog burst of SpecBulk
MaxReplays == 2     \* transactions the server sends a second time in SpecBulk
MaxPauseAt == 2     \* SpecBulk: the feed may pause (timers fire) only this early
MaxChannels == 7    \* EventSource objects created in one SpecStream behaviour
MaxAttempts == 7    \* consecutive channel errors in one SpecStream behaviour
MaxSubmits == 1     \* uploadDoc calls in one behaviour
MaxUploads == 2     \* uploadToWalrus calls in one SpecUpload behaviour
MaxLiveChannels == 5    \* EventSource objects created in one SpecStreamLive behaviour
MaxWireChannels == 2    \* EventSource objects created in one SpecDelivery behaviour
MaxWireEvents == 2      \* parsed messages handed to onEvent in one SpecDelivery behaviour

\* ------------------------------------------------------- program constants
SeenCap == 1000     \* processedTxHashes.size > 1000
SeenKeep == 500     \* entries.slice(-500)
HistoryTail == 49   \* prev.slice(0, 49)
BackoffBaseMs == 1000   \* 1000 * Math.pow(2, attempts)
BackoffCapMs == 30000   \* Math.min(..., 30000)
WarmupMs == 2000        \* setTimeout(() => { isFirstConnection.current = false }, 2000)

Min(a, b) == IF a < b THEN a ELSE b

\* ------------------------------------------------------------- JS values
Str(s) == [t |-> "string", s |-> s]
NumStr(d) == [t |-> "numstring", d |-> d]   \* a JSON string of decimal digits (u64 on the wire)
Num(n) == [t |-> "number", n |-> n]
Undefined == [t |-> "undefined"]
NaN == [t |-> "NaN"]

\* obj.field of a JSON object: undefined when the key is absent
Get(obj, f) == IF f \in DOMAIN obj THEN obj[f] ELSE Undefined

\* JS truthiness of the values above
Truthy(v) ==
    CASE v.t = "undefined" -> FALSE
      [] v.t = "NaN" -> FALSE
      [] v.t = "number" -> v.n # 0
      [] v.t = "string" -> v.s # ""
      [] v.t = "numstring" -> Len(v.d) > 0

\* a || b
OrElse(a, b) == IF Truthy(a) THEN a ELSE b

RECURSIVE DigitsValue(_)
DigitsValue(d) == IF Len(d) = 0 THEN 0
                  ELSE 10 * DigitsValue(SubSeq(d, 1, Len(d) - 1)) + d[Len(d)]

\* Number(v)
Number(v) ==
    CASE v.t = "number" -> v
      [] v.t = "numstring" -> Num(DigitsValue(v.d))
      [] v.t = "string" -> IF v.s = "" THEN Num(0) ELSE NaN
      [] v.t = "undefined" -> NaN
      [] v.t = "NaN" -> NaN

\* String.prototype.includes on token sequences
Includes(s, sub) ==
    \E i \in 1..(Len(s) - Len(sub) + 1) : SubSeq(s, i, i + Len(sub) - 1) = sub

\* Array.prototype.slice(0, n)
SliceHead(a, n) == SubSeq(a, 1, Min(n, Len(a)))

\* Array.prototype.slice(-n)
SliceLast(a, n) == SubSeq(a, IF Len(a) > n THEN Len(a) - n + 1 ELSE 1, Len(a))

Range(a) == {a[i] : i \in 1..Len(a)}

\* ---------------------------------------------------------------- reducer
PACKAGE_ID == <<"0xbfaff760">>
UploadedName == <<"DocumentUploaded">>
VotedName == <<"DocumentVoted">>

\* processedTxHashes.current.has(h)
HasTxHash(set, h) == \E i \in 1..Len(set) : set[i] = h

\* processedTxHashes.current.add(h) followed by the size > 1000 clean-up
AddTxHashKeepsOldest(set, h) ==
    LET entries == Append(set, h)
    IN IF Len(entries) > SeenCap THEN SliceHead(entries, SeenKeep) ELSE entries
AddTxHash(set, h) ==
    LET entries == Append(set, h)
    IN IF Len(entries) > SeenCap THEN SliceLast(entries, SeenKeep) ELSE entries

\* the three early returns of handleEvent
DiscardedSkipsNamespaceFilter(event) ==
    \/ event.type # "package_event"
    \/ HasTxHash(processedTxHashes, event.tx_hash)
DiscardedIgnoresDedup(event) ==
    \/ event.type # "package_event"
    \/ ~Includes(event.data.event_type, PACKAGE_ID)
Discarded(event) ==
    \/ event.type # "package_event"
    \/ ~Includes(event.data.event_type, PACKAGE_ID)
    \/ HasTxHash(processedTxHashes, event.tx_hash)

uploadEventWrongBlobField(event) ==
    LET contents == event.data.contents
    IN [document_id |-> Get(contents, "document_id"),
        uploader |-> Get(contents, "uploader"),
        title |-> Get(contents, "title"),
        walrus_blob_id |-> Get(contents, "blob_id"),
        category |-> Get(contents, "category"),
        timestamp |-> Number(OrElse(Get(contents, "timestamp"), Num(event.timestamp_ms)))]
uploadEvent(event) ==
    LET contents == event.data.contents
    IN [document_id |-> Get(contents, "document_id"),
        uploader |-> Get(contents, "uploader"),
        title |-> Get(contents, "title"),
        walrus_blob_id |-> Get(contents, "walrus_blob_id"),
        category |-> Get(contents, "category"),
        timestamp |-> Number(OrElse(Get(contents, "timestamp"), Num(event.timestamp_ms)))]

voteEvent(event) ==
    LET contents == event.data.contents
    IN [document_id |-> Get(contents, "document_id"),
        voter |-> Get(contents, "voter"),
        new_vote_count |-> Number(OrElse(Get(contents, "new_vote_count"), Num(0)))]

ParsedEvent(kind, event, data) ==
    [eventType |-> kind, txHash |-> event.tx_hash, timestamp |-> event.timestamp_ms,
     data |-> data]

\* setRecentEvents(prev => [entry, ...prev.slice(0, 49)])
PrependEventKeepsAll(prev, entry) == <<entry>> \o prev
PrependEvent(prev, entry) == <<entry>> \o SliceHead(prev, HistoryTail)

\* if (!isFirstConnection.current) onDocumentUploaded / onDocumentVoted (...)
InvokeInverted(first, cb, data, txHash) ==
    IF first THEN <<[cb |-> cb, data |-> data, txHash |-> txHash]>> ELSE <<>>
InvokeAlways(first, cb, data, txHash) == <<[cb |-> cb, data |-> data, txHash |-> txHash]>>
Invoke(first, cb, data, txHash) ==
    IF ~first THEN <<[cb |-> cb, data |-> data, txHash |-> txHash]>> ELSE <<>>

\* useDocumentEventStream.handleEvent
handleEvent(event) ==
    LET eventType == event.data.event_type
        isUploaded == Includes(eventType, UploadedName)
        isVoted == Includes(eventType, VotedName)
        afterUploaded == IF isUploaded
                         THEN PrependEvent(recentEvents,
                                  ParsedEvent("DocumentUploaded", event, uploadEvent(event)))
                         ELSE recentEvents
        afterVoted == IF isVoted
                      THEN PrependEvent(afterUploaded,
                               ParsedEvent("DocumentVoted", event, voteEvent(event)))
                      ELSE afterUploaded
        cbUploaded == IF isUploaded
                      THEN Invoke(isFirstConnection, "onDocumentUploaded",
                                  uploadEvent(event), event.tx_hash)
                      ELSE <<>>
        cbVoted == IF isVoted
                   THEN Invoke(isFirstConnection, "onDocumentVoted",
                               voteEvent(event), event.tx_hash)
                   ELSE <<>>
    IN /\ lastCall' = [n |-> lastCall.n + 1, event |-> event, repeat |-> event = lastCall.event]
       /\ UNCHANGED isFirstConnection
       /\ IF Discarded(event)
          THEN UNCHANGED <<processedTxHashes, recentEvents, callbacks, warmupTimers, handled>>
          ELSE /\ processedTxHashes' = AddTxHash(processedTxHashes, event.tx_hash)
               /\ handled' = Append(handled, event.tx_hash)
               /\ recentEvents' = afterVoted
               /\ callbacks' = callbacks \o cbUploaded \o cbVoted
               /\ warmupTimers' = Append(warmupTimers, WarmupMs)

\* the setTimeout callback of handleEvent: isFirstConnection.current = false
WarmupTimerFires ==
    /\ warmupTimers # <<>>
    /\ warmupTimers' = Tail(warmupTimers)
    /\ isFirstConnection' = FALSE
    /\ UNCHANGED <<processedTxHashes, recentEvents, callbacks, handled, lastCall>>
    /\ UNCHANGED <<feedPos, streamVars, uploadVars>>

\* a clear that resets the history only
clearEventsKeepsSeenSet ==
    /\ recentEvents' = <<>>
    /\ UNCHANGED <<processedTxHashes, isFirstConnection, warmupTimers, callbacks, handled,
                   lastCall>>
    /\ UNCHANGED <<feedPos, streamVars, uploadVars>>

\* clearEvents
clearEvents ==
    /\ recentEvents' = <<>>
    /\ processedTxHashes' = <<>>
    /\ UNCHANGED <<isFirstConnection, warmupTimers, callbacks, handled, lastCall>>
    /\ UNCHANGED <<feedPos, streamVars, uploadVars>>

NoEvent == [type |-> "none", timestamp_ms |-> 0, checkpoint_id |-> 0, tx_hash |-> 0,
            data |-> [event_type |-> <<>>, sender |-> "", contents |-> <<>>]]

\* a reducer constructed with the warm-up already over
ReducerInitPastWarmup ==
    /\ processedTxHashes = <<>>
    /\ recentEvents = <<>>
    /\ isFirstConnection = FALSE
    /\ warmupTimers = <<>>
    /\ callbacks = <<>>
    /\ handled = <<>>
    /\ lastCall = [n |-> 0, event |-> NoEvent, repeat |-> FALSE]

ReducerInit ==
    /\ processedTxHashes = <<>>
    /\ recentEvents = <<>>
    /\ isFirstConnection = TRUE
    /\ warmupTimers = <<>>
    /\ callbacks = <<>>
    /\ handled = <<>>
    /\ lastCall = [n |-> 0, event |-> NoEvent, repeat |-> FALSE]

\* ----------------------------------------------------------- stream client
SURFLUX_API_KEY == "sk-live"        \* import.meta.env.VITE_SURFLUX_API_KEY, when configured
ApiKeys == {"", "your_surflux_api_key_here", SURFLUX_API_KEY}

\* the stream client's state as one value, so that connect() and disconnect() compose
StreamState ==
    [status |-> status, lastError |-> lastError, eventSourceRef |-> eventSourceRef,
     reconnectTimeoutRef |-> reconnectTimeoutRef, reconnectAttempts |-> reconnectAttempts,
     channels |-> channels, created |-> created, timers |-> timers]

SetStream(S) ==
    /\ status' = S.status
    /\ lastError' = S.lastError
    /\ eventSourceRef' = S.eventSourceRef
    /\ reconnectTimeoutRef' = S.reconnectTimeoutRef
    /\ reconnectAttempts' = S.reconnectAttempts
    /\ channels' = S.channels
    /\ created' = S.created
    /\ timers' = S.timers

\* EventSource.close(): the channel stops existing, none of its handlers fires again
CloseChannel(chs, c) == {ch \in chs : ch.id # c}

\* new EventSource(url) by a connect() whose closure holds enabled = en
NewChannel(S, en) == [id |-> S.created + 1, readyState |-> "connecting", enabled |-> en]

\* useSurfluxStream.connect, as created by a render whose enabled option is en
connectSetsConnected(S, key, en) ==
    IF key = "" \/ key = "your_surflux_api_key_here"
    THEN [S EXCEPT !.status = "disconnected"]
    ELSE LET closed == IF S.eventSourceRef # 0
                       THEN CloseChannel(S.channels, S.eventSourceRef)
                       ELSE S.channels
         IN [S EXCEPT !.status = "connected",
                      !.channels = closed \cup {NewChannel(S, en)},
                      !.created = S.created + 1,
                      !.eventSourceRef = S.created + 1]
connectWithoutKeyCheck(S, key, en) ==
    LET closed == IF S.eventSourceRef # 0
                  THEN CloseChannel(S.channels, S.eventSourceRef)
                  ELSE S.channels
    IN [S EXCEPT !.status = "connecting",
                 !.channels = closed \cup {NewChannel(S, en)},
                 !.created = S.created + 1,
                 !.eventSourceRef = S.created + 1]
connectLeavesOldOpen(S, key, en) ==
    IF key = "" \/ key = "your_surflux_api_key_here"
    THEN [S EXCEPT !.status = "disconnected"]
    ELSE [S EXCEPT !.status = "connecting",
                   !.channels = S.channels \cup {NewChannel(S, en)},
                   !.created = S.created + 1,
                   !.eventSourceRef = S.created + 1]
connect(S, key, en) ==
    IF key = "" \/ key = "your_surflux_api_key_here"
    THEN [S EXCEPT !.status = "disconnected"]
    ELSE LET closed == IF S.eventSourceRef # 0
                       THEN CloseChannel(S.channels, S.eventSourceRef)
                       ELSE S.channels
         IN [S EXCEPT !.status = "connecting",
                      !.channels = closed \cup {NewChannel(S, en)},
                      !.created = S.created + 1,
                      !.eventSourceRef = S.created + 1]

\* a disconnect that also restarts the backoff
disconnectResetsAttempts(S) ==
    LET cleared == IF S.reconnectTimeoutRef # 0
                   THEN {t \in S.timers : t.id # S.reconnectTimeoutRef}
                   ELSE S.timers
        closed == IF S.eventSourceRef # 0
                  THEN CloseChannel(S.channels, S.eventSourceRef)
                  ELSE S.channels
    IN [S EXCEPT !.timers = cleared, !.reconnectTimeoutRef = 0,
                 !.channels = closed, !.eventSourceRef = 0,
                 !.status = "disconnected", !.reconnectAttempts = 0]

\* useSurfluxStream.disconnect
disconnect(S) ==
    LET cleared == IF S.reconnectTimeoutRef # 0
                   THEN {t \in S.timers : t.id # S.reconnectTimeoutRef}
                   ELSE S.timers
        closed == IF S.eventSourceRef # 0
                  THEN CloseChannel(S.channels, S.eventSourceRef)
                  ELSE S.channels
    IN [S EXCEPT !.timers = cleared, !.reconnectTimeoutRef = 0,
                 !.channels = closed, !.eventSourceRef = 0,
                 !.status = "disconnected"]

\* Math.min(1000 * Math.pow(2, attempts), 30000)
backoffUncapped(attempts) == BackoffBaseMs * 2^attempts
backoff(attempts) == Min(BackoffBaseMs * 2^attempts, BackoffCapMs)

\* a new EventSource can still be created within the bound
CanOpen == apiKey \in {"", "your_surflux_api_key_here"} \/ created < MaxChannels

\* the useEffect of useSurfluxStream: cleanup of the previous run (disconnect), then
\* connect() when enabled, disconnect() otherwise
EffectRun ==
    \E b \in BOOLEAN :
        /\ CanOpen
        /\ mounted' = TRUE
        /\ enabled' = b
        /\ SetStream(IF b THEN connect(disconnect(StreamState), apiKey, b)
                          ELSE disconnect(disconnect(StreamState)))
        /\ lastOp' = [op |-> "effect", ref |-> eventSourceRef]
        /\ UNCHANGED <<delays, apiKey>>
        /\ UNCHANGED <<reducerVars, feedPos, uploadVars>>

\* the connect function returned by the hook, called by its user
CallConnect ==
    /\ mounted
    /\ CanOpen
    /\ SetStream(connect(StreamState, apiKey, enabled))
    /\ lastOp' = [op |-> "connect", ref |-> eventSourceRef]
    /\ UNCHANGED <<mounted, enabled, delays, apiKey>>
    /\ UNCHANGED <<reducerVars, feedPos, uploadVars>>

\* the disconnect function returned by the hook, called by its user
CallDisconnect ==
    /\ mounted
    /\ SetStream(disconnect(StreamState))
    /\ lastOp' = [op |-> "disconnect", ref |-> eventSourceRef]
    /\ UNCHANGED <<mounted, enabled, delays, apiKey>>
    /\ UNCHANGED <<reducerVars, feedPos, uploadVars>>

\* onopen without the counter reset
ChannelOpenKeepsAttempts ==
    \E ch \in channels :
        /\ ch.readyState = "connecting"
        /\ channels' = (channels \ {ch}) \cup {[ch EXCEPT !.readyState = "open"]}
        /\ status' = "connected"
        /\ lastError' = "null"
        /\ delays' = <<>>
        /\ lastOp' = [op |-> "open", ref |-> eventSourceRef]
        /\ UNCHANGED <<mounted, enabled, eventSourceRef, reconnectTimeoutRef, created,
                       timers, apiKey, reconnectAttempts>>
        /\ UNCHANGED <<reducerVars, feedPos, uploadVars>>
\* onopen that starts every connection with an empty seen-set
ChannelOpenForgetsSeenSet ==
    \E ch \in channels :
        /\ ch.readyState = "connecting"
        /\ channels' = (channels \ {ch}) \cup {[ch EXCEPT !.readyState = "open"]}
        /\ status' = "connected"
        /\ lastError' = "null"
        /\ reconnectAttempts' = 0
        /\ delays' = <<>>
        /\ lastOp' = [op |-> "open", ref |-> eventSourceRef]
        /\ processedTxHashes' = <<>>
        /\ UNCHANGED <<mounted, enabled, eventSourceRef, reconnectTimeoutRef, created,
                       timers, apiKey>>
        /\ UNCHANGED <<recentEvents, isFirstConnection, warmupTimers, callbacks, handled,
                       lastCall, feedPos, uploadVars>>
\* eventSource.onopen
ChannelOpen ==
    \E ch \in channels :
        /\ ch.readyState = "connecting"
        /\ channels' = (channels \ {ch}) \cup {[ch EXCEPT !.readyState = "open"]}
        /\ status' = "connected"
        /\ lastError' = "null"
        /\ reconnectAttempts' = 0
        /\ delays' = <<>>
        /\ lastOp' = [op |-> "open", ref |-> eventSourceRef]
        /\ UNCHANGED <<mounted, enabled, eventSourceRef, reconnectTimeoutRef, created,
                       timers, apiKey>>
        /\ UNCHANGED <<reducerVars, feedPos, uploadVars>>

\* onerror that schedules the reconnect without closing its channel
ChannelErrorKeepsChannel ==
    \E ch \in channels :
        /\ reconnectAttempts < MaxAttempts
        /\ status' = "error"
        /\ lastError' = "Surflux connection failed"
        /\ eventSourceRef' = 0
        /\ reconnectAttempts' = reconnectAttempts + 1
        /\ timers' = timers \cup {[id |-> ch.id, delay |-> backoff(reconnectAttempts),
                                   enabled |-> ch.enabled]}
        /\ reconnectTimeoutRef' = ch.id
        /\ delays' = Append(delays, backoff(reconnectAttempts))
        /\ lastOp' = [op |-> "error", ref |-> eventSourceRef, after |-> lastOp.op]
        /\ UNCHANGED <<mounted, enabled, created, apiKey, channels>>
        /\ UNCHANGED <<reducerVars, feedPos, uploadVars>>

\* eventSource.onerror
ChannelError ==
    \E ch \in channels :
        /\ reconnectAttempts < MaxAttempts
        /\ status' = "error"
        /\ lastError' = "Surflux connection failed"
        /\ channels' = CloseChannel(channels, ch.id)
        /\ eventSourceRef' = 0
        /\ reconnectAttempts' = reconnectAttempts + 1
        /\ timers' = timers \cup {[id |-> ch.id, delay |-> backoff(reconnectAttempts),
                                   enabled |-> ch.enabled]}
        /\ reconnectTimeoutRef' = ch.id
        /\ delays' = Append(delays, backoff(reconnectAttempts))
        /\ lastOp' = [op |-> "error", ref |-> eventSourceRef, after |-> lastOp.op]
        /\ UNCHANGED <<mounted, enabled, created, apiKey>>
        /\ UNCHANGED <<reducerVars, feedPos, uploadVars>>

\* a reconnect timer whose callback forgets to call connect()
ReconnectTimerNeverConnects ==
    \E t \in timers :
        /\ CanOpen
        /\ SetStream([StreamState EXCEPT !.timers = timers \ {t}])
        /\ lastOp' = [op |-> "timer", ref |-> eventSourceRef]
        /\ UNCHANGED <<mounted, enabled, delays, apiKey>>
        /\ UNCHANGED <<reducerVars, feedPos, uploadVars>>

\* the setTimeout callback of onerror: if (enabled) connect()
ReconnectTimerFires ==
    \E t \in timers :
        /\ CanOpen
        /\ SetStream(IF t.enabled
                     THEN connect([StreamState EXCEPT !.timers = timers \ {t}], apiKey, t.enabled)
                     ELSE [StreamState EXCEPT !.timers = timers \ {t}])
        /\ lastOp' = [op |-> "timer", ref |-> eventSourceRef]
        /\ UNCHANGED <<mounted, enabled, delays, apiKey>>
        /\ UNCHANGED <<reducerVars, feedPos, uploadVars>>

StreamInit ==
    /\ apiKey \in ApiKeys
    /\ mounted = FALSE
    /\ enabled = TRUE
    /\ status = "disconnected"
    /\ lastError = "null"
    /\ eventSourceRef = 0
    /\ reconnectTimeoutRef = 0
    /\ reconnectAttempts = 0
    /\ channels = {}
    /\ created = 0
    /\ timers = {}
    /\ delays = <<>>
    /\ lastOp = [op |-> "none", ref |-> 0]

StreamNext ==
    \/ EffectRun \/ CallConnect \/ CallDisconnect
    \/ ChannelOpen \/ ChannelError \/ ReconnectTimerFires

\* ---------------------------------------------------------------- uploader
PROXY_ENDPOINTS == <<"/walrus-api", "/walrus-api-2", "/walrus-api-3", "/walrus-api-4">>
NumMirrors == Len(PROXY_ENDPOINTS)

\* what the mirrors can answer; ids, statuses and messages differ per mirror
BlobIds == <<"blob-1", "blob-2", "blob-3", "blob-4">>
HttpStatus == <<"500", "502", "503", "504">>
NetMessages == <<"net-1", "net-2", "net-3", "net-4">>
InvalidJson == [t |-> "invalid-json"]
Error(message) == [message |-> message]

Rejects(m, isError) == [kind |-> "reject", isError |-> isError, reason |-> NetMessages[m]]
Http(ok, code, text, body) ==
    [kind |-> "http", ok |-> ok, status |-> code, text |-> text, body |-> body]

MirrorAnswers(m) ==
    { Rejects(m, TRUE),
      Rejects(m, FALSE),
      Http(FALSE, HttpStatus[m], "unavailable", Undefined),
      Http(TRUE, "200", "", [newlyCreated |-> [blobObject |-> [blobId |-> Str(BlobIds[m])]]]),
      Http(TRUE, "200", "", [alreadyCertified |-> [blobId |-> Str(BlobIds[m])]]),
      Http(TRUE, "200", "", [blobId |-> Str(BlobIds[m])]),
      Http(TRUE, "200", "", [error |-> Str("no space")]),
      Http(TRUE, "200", "", [blobId |-> Str("")]),
      Http(TRUE, "200", "", [newlyCreated |-> [cost |-> Str("12")]]),
      Http(TRUE, "200", "", InvalidJson) }

\* a?.f
OptGet(a, f) == IF a = Undefined THEN Undefined ELSE Get(a, f)

\* result.newlyCreated?.blobObject?.blobId || result.alreadyCertified?.blobId || result.blobId
blobIdOfSkipsCertified(result) ==
    OrElse(OptGet(OptGet(Get(result, "newlyCreated"), "blobObject"), "blobId"),
           Get(result, "blobId"))
blobIdOf(result) ==
    OrElse(OrElse(OptGet(OptGet(Get(result, "newlyCreated"), "blobObject"), "blobId"),
                  OptGet(Get(result, "alreadyCertified"), "blobId")),
           Get(result, "blobId"))

\* a loop body without the if (!blobId) check
AttemptAcceptsAnyBody(r) ==
    IF r.kind = "reject"
    THEN [ok |-> FALSE,
          error |-> IF r.isError THEN Error(<<r.reason>>) ELSE Error(<<"String(", r.reason, ")">>)]
    ELSE IF ~r.ok
    THEN [ok |-> FALSE, error |-> Error(<<"HTTP ", r.status, ": ", r.text>>)]
    ELSE IF r.body = InvalidJson
    THEN [ok |-> FALSE, error |-> Error(<<"SyntaxError">>)]
    ELSE [ok |-> TRUE, blobId |-> blobIdOf(r.body)]

\* one pass of the loop body for the answer r: the blob id, or the error kept in lastError
Attempt(r) ==
    IF r.kind = "reject"
    THEN [ok |-> FALSE,
          error |-> IF r.isError THEN Error(<<r.reason>>) ELSE Error(<<"String(", r.reason, ")">>)]
    ELSE IF ~r.ok
    THEN [ok |-> FALSE, error |-> Error(<<"HTTP ", r.status, ": ", r.text>>)]
    ELSE IF r.body = InvalidJson
    THEN [ok |-> FALSE, error |-> Error(<<"SyntaxError">>)]
    ELSE IF ~Truthy(blobIdOf(r.body))
    THEN [ok |-> FALSE, error |-> Error(<<"Blob ID could not be retrieved">>)]
    ELSE [ok |-> TRUE, blobId |-> blobIdOf(r.body)]

\* lastError = <the error of this mirror>
AssignLastErrorKeepsFirst(prev, error) == IF prev = Undefined THEN error ELSE prev
AssignLastError(prev, error) == error

\* a call that goes back first to the mirror that served the previous call
StartUploadPrefersLastMirror ==
    /\ upPc \in {"idle", "returned", "thrown"}
    /\ upCalls < MaxUploads
    /\ upCalls' = upCalls + 1
    /\ answers' = <<>>
    /\ walrusUploading' = TRUE
    /\ walrusUploadStatus' = "uploading"
    /\ walrusError' = "null"
    /\ upLastError' = Undefined
    /\ upIdx' = IF upPc = "returned" THEN upIdx - 1 ELSE 1
    /\ upRequests' = <<>>
    /\ upPc' = "running"
    /\ upResult' = Undefined
    /\ UNCHANGED <<walrusBlobId, docPc, submitted, ledger>>
    /\ UNCHANGED <<reducerVars, feedPos, streamVars>>

\* uploadToWalrus up to the first fetch; selectedFile is set by the caller
StartUpload ==
    /\ upPc \in {"idle", "returned", "thrown"}
    /\ upCalls < MaxUploads
    /\ upCalls' = upCalls + 1
    /\ answers' = <<>>
    /\ walrusUploading' = TRUE
    /\ walrusUploadStatus' = "uploading"
    /\ walrusError' = "null"
    /\ upLastError' = Undefined
    /\ upIdx' = 1
    /\ upRequests' = <<>>
    /\ upPc' = "running"
    /\ upResult' = Undefined
    /\ UNCHANGED <<walrusBlobId, docPc, submitted, ledger>>
    /\ UNCHANGED <<reducerVars, feedPos, streamVars>>

\* the loop takes the next endpoint and calls fetch: await fetch(`${proxyEndpoint}/v1/blobs...`)
FetchMirror ==
    /\ upPc = "running"
    /\ upIdx <= NumMirrors
    /\ upRequests' = Append(upRequests, PROXY_ENDPOINTS[upIdx])
    /\ upPc' = "awaiting"
    /\ UNCHANGED <<upIdx, upLastError, upResult, upCalls, answers, walrusUploading,
                   walrusUploadStatus, walrusError, walrusBlobId>>
    /\ UNCHANGED formVars
    /\ UNCHANGED <<reducerVars, feedPos, streamVars>>

\* the rest of the iteration, once the awaited fetch has settled with the answer r
TryMirror ==
    /\ upPc = "awaiting"
    /\ UNCHANGED upRequests
    /\ \E r \in MirrorAnswers(upIdx) :
       LET a == Attempt(r)
       IN /\ answers' = Append(answers, r)
          /\ IF a.ok
             THEN /\ walrusUploading' = FALSE
                  /\ walrusUploadStatus' = "success"
                  /\ walrusBlobId' = a.blobId
                  /\ upResult' = a.blobId
                  /\ upPc' = "returned"
                  /\ upIdx' = upIdx + 1
                  /\ UNCHANGED <<upLastError, walrusError>>
             ELSE /\ upLastError' = AssignLastError(upLastError, a.error)
                  /\ upIdx' = upIdx + 1
                  /\ upPc' = "running"
                  /\ UNCHANGED <<upResult, walrusUploading, walrusUploadStatus,
                                 walrusError, walrusBlobId>>
    /\ UNCHANGED upCalls
    /\ UNCHANGED formVars
    /\ UNCHANGED <<reducerVars, feedPos, streamVars>>

\* a total failure that also empties the form's blob id
AllFailedClearsBlobId ==
    /\ upPc = "running"
    /\ upIdx > NumMirrors
    /\ walrusUploading' = FALSE
    /\ walrusUploadStatus' = "error"
    /\ walrusError' = IF upLastError # Undefined THEN upLastError.message
                      ELSE <<"All Walrus publishers failed">>
    /\ upResult' = IF upLastError # Undefined THEN upLastError
                   ELSE Error(<<"Walrus upload failed">>)
    /\ upPc' = "thrown"
    /\ walrusBlobId' = Str("")
    /\ UNCHANGED <<upIdx, upLastError, upRequests, upCalls, answers>>
    /\ UNCHANGED formVars
    /\ UNCHANGED <<reducerVars, feedPos, streamVars>>
\* the code after the loop: all endpoints failed
AllFailed ==
    /\ upPc = "running"
    /\ upIdx > NumMirrors
    /\ walrusUploading' = FALSE
    /\ walrusUploadStatus' = "error"
    /\ walrusError' = IF upLastError # Undefined THEN upLastError.message
                      ELSE <<"All Walrus publishers failed">>
    /\ upResult' = IF upLastError # Undefined THEN upLastError
                   ELSE Error(<<"Walrus upload failed">>)
    /\ upPc' = "thrown"
    /\ UNCHANGED <<upIdx, upLastError, upRequests, upCalls, answers, walrusBlobId>>
    /\ UNCHANGED formVars
    /\ UNCHANGED <<reducerVars, feedPos, streamVars>>

\* handleFileSelect up to the first fetch of uploadToWalrus; what uploadToWalrus throws is
\* swallowed by the catch, so nothing follows the upload
handleFileSelect ==
    \E file \in {0, upCalls + 1} :
        IF file = 0
        THEN UNCHANGED vars
        ELSE /\ selectedFile' = file
             /\ StartUpload

\* handleUploadDocument up to the awaited uploadDoc call; profile is an input, and the
\* two early returns only show a toast
handleUploadDocument ==
    /\ docPc = "idle"
    /\ \E hasProfile \in BOOLEAN :
          IF ~hasProfile \/ ~Truthy(walrusBlobId)
          THEN UNCHANGED <<docPc, submitted>>
          ELSE /\ Len(submitted) < MaxSubmits
               /\ submitted' = Append(submitted, [blobId |-> walrusBlobId, file |-> selectedFile])
               /\ docPc' = "submitting"
    /\ UNCHANGED <<upPc, upIdx, upLastError, upResult, upRequests, upCalls, answers,
                   walrusUploading, walrusUploadStatus, walrusError, walrusBlobId,
                   selectedFile, ledger>>
    /\ UNCHANGED <<reducerVars, feedPos, streamVars>>

\* the rest of handleUploadDocument once uploadDoc has settled: the form is reset when it
\* resolved, and left as it is when it rejected
uploadDocSettles ==
    /\ docPc = "submitting"
    /\ docPc' = "idle"
    /\ \E resolved \in BOOLEAN :
          IF resolved
          THEN /\ ledger' = Append(ledger, submitted[Len(submitted)].blobId)
               /\ walrusBlobId' = Str("")
               /\ selectedFile' = 0
               /\ walrusUploadStatus' = "idle"
          ELSE UNCHANGED <<ledger, walrusBlobId, selectedFile, walrusUploadStatus>>
    /\ UNCHANGED <<upPc, upIdx, upLastError, upResult, upRequests, upCalls, answers,
                   walrusUploading, walrusError, submitted>>
    /\ UNCHANGED <<reducerVars, feedPos, streamVars>>

UploadInit ==
    /\ upPc = "idle"
    /\ upIdx = 1
    /\ upLastError = Undefined
    /\ upResult = Undefined
    /\ upRequests = <<>>
    /\ upCalls = 0
    /\ answers = <<>>
    /\ walrusUploading = FALSE
    /\ walrusUploadStatus = "idle"
    /\ walrusError = "null"
    /\ walrusBlobId = Str("")
    /\ selectedFile = 0
    /\ docPc = "idle"
    /\ submitted = <<>>
    /\ ledger = <<>>

UploadNext == handleFileSelect \/ FetchMirror \/ TryMirror \/ AllFailed
\* the answers the mirrors give in SpecForm: one of each outcome of an iteration
FormAnswers(m) ==
    { Rejects(m, TRUE),
      Http(FALSE, HttpStatus[m], "unavailable", Undefined),
      Http(TRUE, "200", "", [blobId |-> Str("")]),
      Http(TRUE, "200", "", [newlyCreated |-> [blobObject |-> [blobId |-> Str(BlobIds[m])]]]) }
FormNext ==
    \/ UploadNext /\ \A i \in DOMAIN answers' : answers'[i] \in FormAnswers(i)
    \/ handleUploadDocument
    \/ uploadDocSettles

\* ------------------------------------------------- events fed to the reducer
TypeOf(name) == PACKAGE_ID \o <<"::", "document_system", "::">> \o name

UploadContents ==
    [document_id |-> Str("d1"), uploader |-> Str("0xU"), title |-> Str("Notes"),
     walrus_blob_id |-> Str("b1"), category |-> Str("Math")]
UploadContentsStamped ==
    [document_id |-> Str("d2"), uploader |-> Str("0xU"), title |-> Str("Lab"),
     walrus_blob_id |-> Str("b2"), category |-> Str("Physics"),
     timestamp |-> NumStr(<<4, 2>>)]
VoteContents ==
    [document_id |-> Str("d1"), voter |-> Str("0xV"), new_vote_count |-> NumStr(<<7>>)]
VoteContentsNoCount ==
    [document_id |-> Str("d1"), voter |-> Str("0xV")]

SurfluxEvent(type, eventType, contents, h) ==
    [type |-> type, timestamp_ms |-> 1700 + h, checkpoint_id |-> 9, tx_hash |-> h,
     data |-> [event_type |-> eventType, sender |-> "0xS", contents |-> contents]]

\* the shapes of event the stream can carry, for transaction hash h
EventShapes(h) ==
    << SurfluxEvent("package_event", TypeOf(UploadedName), UploadContents, h),
       SurfluxEvent("package_event", TypeOf(UploadedName), UploadContentsStamped, h),
       SurfluxEvent("package_event", TypeOf(VotedName), VoteContents, h),
       SurfluxEvent("package_event", TypeOf(VotedName), VoteContentsNoCount, h),
       SurfluxEvent("package_event", TypeOf(<<"ProfileCreated">>), VoteContentsNoCount, h),
       SurfluxEvent("package_event", TypeOf(UploadedName \o <<"To">> \o VotedName),
                    UploadContents, h),
       SurfluxEvent("package_event",
                    <<"0xother", "::", "document_system", "::">> \o UploadedName,
                    UploadContents, h),
       SurfluxEvent("address_update", TypeOf(UploadedName), UploadContents, h) >>

NumShapes == Len(EventShapes(1))

\* SpecReducer: events are handed straight to handleEvent
FeedEvent ==
    /\ lastCall.n < MaxEvents
    /\ \E h \in 1..MaxTx : \E k \in 1..NumShapes : handleEvent(EventShapes(h)[k])
    /\ UNCHANGED <<feedPos, streamVars, uploadVars>>

ReducerNext == FeedEvent \/ WarmupTimerFires \/ clearEvents

\* SpecBulk: a long feed. The server emits transactions 1, 2, 3, ...; up to the first
\* MaxPauseAt transactions the feed may pause (warm-up timers fire), after them the
\* events come back to back. The server may send an earlier transaction a second time,
\* early in the feed or once the seen-set is full.
BulkShape(h) == <<6, 1, 3, 5>>[(h % 4) + 1]
BulkEvent(h) == EventShapes(h)[BulkShape(h)]
ReplaySet == {1, SeenCap - SeenKeep + 1, SeenCap - SeenKeep + 2, feedPos}

BulkFeed ==
    /\ feedPos < MaxBulk
    /\ handleEvent(BulkEvent(feedPos + 1))
    /\ feedPos' = feedPos + 1
    /\ UNCHANGED <<streamVars, uploadVars>>

BulkReplay ==
    /\ lastCall.n - feedPos < MaxReplays
    /\ feedPos <= MaxPauseAt \/ feedPos >= SeenCap
    /\ \E h \in ReplaySet : h >= 1 /\ h <= feedPos /\ handleEvent(BulkEvent(h))
    /\ UNCHANGED <<feedPos, streamVars, uploadVars>>

BulkPause ==
    /\ feedPos <= MaxPauseAt
    /\ WarmupTimerFires

BulkNext == BulkFeed \/ BulkReplay \/ BulkPause

\* SpecDelivery: the stream client with the reducer's handleEvent as its onEvent
\* (useDocumentEventStream passes onEvent: handleEvent). MessageEvent.data is either the
\* JSON text of an event or text that is not JSON.
JsonOf(event) == [json |-> event]
NotJson(text) == [text |-> text]
WireEvents ==
    {EventShapes(1)[1], EventShapes(1)[3], EventShapes(2)[2], EventShapes(2)[8]}
WireData == {JsonOf(e) : e \in WireEvents} \cup {NotJson(""), NotJson("{\"type\":")}

\* JSON.parse: the value, or a thrown SyntaxError
JSONparse(data) ==
    IF "json" \in DOMAIN data
    THEN [ok |-> TRUE, value |-> data.json]
    ELSE [ok |-> FALSE, error |-> "SyntaxError"]

\* the data of a message is the JSON text of some value
IsJson(data) == "json" \in DOMAIN data

\* history kept of an onmessage call: was its data JSON, does it follow a message that was
\* not, is it the first thing to happen on the channel since it opened
MessageOp(data) ==
    [op |-> "message", ref |-> eventSourceRef, json |-> IsJson(data),
     afterDrop |-> lastOp.op = "message" /\ ~lastOp.json,
     afterOpen |-> lastOp.op = "open"]

\* eventSource.onmessage: try { onEvent?.(JSON.parse(event.data)) } catch { console.error }
ChannelMessageIgnoresParseError ==
    \E ch \in channels : \E data \in WireData :
        /\ ch.readyState = "open"
        /\ lastCall.n < MaxWireEvents
        /\ handleEvent(IF JSONparse(data).ok THEN JSONparse(data).value ELSE EventShapes(1)[1])
        /\ lastOp' = MessageOp(data)
        /\ UNCHANGED <<apiKey, mounted, enabled, status, lastError, eventSourceRef,
                       reconnectTimeoutRef, reconnectAttempts, channels, created, timers,
                       delays>>
        /\ UNCHANGED <<feedPos, uploadVars>>
ChannelMessage ==
    \E ch \in channels : \E data \in WireData :
        /\ ch.readyState = "open"
        /\ LET parsed == JSONparse(data)
           IN IF parsed.ok
              THEN /\ lastCall.n < MaxWireEvents
                   /\ handleEvent(parsed.value)
              ELSE UNCHANGED reducerVars
        /\ lastOp' = MessageOp(data)
        /\ UNCHANGED <<apiKey, mounted, enabled, status, lastError, eventSourceRef,
                       reconnectTimeoutRef, reconnectAttempts, channels, created, timers,
                       delays>>
        /\ UNCHANGED <<feedPos, uploadVars>>

DeliveryNext ==
    \/ StreamNext /\ created' <= MaxWireChannels
    \/ ChannelMessage
    \/ WarmupTimerFires
    \/ clearEvents

Init == ReducerInit /\ feedPos = 0 /\ StreamInit /\ UploadInit
InitConfigured == Init /\ apiKey = SURFLUX_API_KEY

SpecReducer == InitConfigured /\ [][ReducerNext]_vars
SpecBulk == InitConfigured /\ [][BulkNext]_vars
SpecStream == Init /\ [][StreamNext]_vars
\* a pending setTimeout callback eventually runs
LiveNext == StreamNext /\ created' <= MaxLiveChannels
SpecStreamLive ==
    InitConfigured /\ [][LiveNext]_vars
                   /\ WF_vars(ReconnectTimerFires /\ created' <= MaxLiveChannels)
SpecUpload == InitConfigured /\ [][UploadNext]_vars
SpecDelivery == InitConfigured /\ [][DeliveryNext]_vars
SpecForm == InitConfigured /\ [][FormNext]_vars

\* ================================================================ claims
HistoryCap == HistoryTail + 1
Classifiable(e) ==
    /\ e.type = "package_event"
    /\ Includes(e.data.event_type, PACKAGE_ID)
    /\ Includes(e.data.event_type, UploadedName) \/ Includes(e.data.event_type, VotedName)

\* C1 as stated: once a tx_hash has got past the dedup step of this reducer instance,
\* every later handleEvent call carrying it invokes no callback and leaves
\* recentEvents unchanged.
C1_EverHandledIsDiscarded ==
    [][ (lastCall'.n = lastCall.n + 1 /\ lastCall'.event.tx_hash \in Range(handled))
        => (callbacks' = callbacks /\ recentEvents' = recentEvents) ]_vars

\* C1 amended: a handleEvent call whose tx_hash is in the seen-set at the time of the
\* call invokes no callback and leaves recentEvents (and the seen-set) unchanged.
C1_SeenIsDiscarded ==
    [][ (lastCall'.n = lastCall.n + 1
           /\ lastCall'.event.tx_hash \in Range(processedTxHashes))
        => (callbacks' = callbacks /\ recentEvents' = recentEvents
              /\ processedTxHashes' = processedTxHashes) ]_vars

\* C1 witness: past warm-up, the latest call carried an uploaded-document event whose
\* hash was in the seen-set and was not the hash inserted last, so it was discarded.
C1_Witness ==
    /\ Len(handled) > 0
    /\ ~isFirstConnection
    /\ Classifiable(lastCall.event)
    /\ lastCall.event.tx_hash \in Range(processedTxHashes)
    /\ lastCall.event.tx_hash # handled[Len(handled)]

\* C2: the seen-set never holds more than 1000 hashes after a call; the insertion that
\* makes it exceed 1000 leaves exactly the 500 most recently inserted hashes; and a
\* call carrying one of the 500 most recently inserted hashes is discarded.
C2_SeenSetCapped ==
    /\ [](/\ Len(processedTxHashes) <= SeenCap
          /\ Range(SliceLast(handled, SeenKeep)) \subseteq Range(processedTxHashes))
    /\ [][ (Len(handled') = Len(handled) + 1 /\ Len(processedTxHashes) = SeenCap)
            => (/\ Len(processedTxHashes') = SeenKeep
                /\ processedTxHashes' = SubSeq(handled', Len(handled') - SeenKeep + 1,
                                               Len(handled'))) ]_vars
    /\ [][ (lastCall'.n = lastCall.n + 1
               /\ lastCall'.event.tx_hash \in Range(SliceLast(handled, SeenKeep)))
            => (handled' = handled /\ recentEvents' = recentEvents
                  /\ callbacks' = callbacks) ]_vars

\* C2 witness: the 1001st insertion has compacted the set to 500 hashes and the call
\* after it carried the oldest hash that was kept, and was discarded.
C2_Witness ==
    /\ Len(handled) = SeenCap + 1
    /\ Len(processedTxHashes) = SeenKeep
    /\ lastCall.n = Len(handled) + 1
    /\ lastCall.event.tx_hash = handled[SeenCap - SeenKeep + 2]
    /\ processedTxHashes[1] = lastCall.event.tx_hash

\* C3: recentEvents never holds more than 50 entries, and every change to it puts the
\* entries of the event just handled at the front, keeps the earlier entries in their
\* order behind them and drops only entries from the old end.
C3_HistoryBoundedNewestFirst ==
    /\ [](Len(recentEvents) <= HistoryCap)
    /\ [][ recentEvents' # recentEvents =>
            \E k \in 1..2 :
                /\ Len(recentEvents') = Min(Len(recentEvents) + k, HistoryCap)
                /\ \A i \in 1..k : recentEvents'[i].txHash = lastCall'.event.tx_hash
                /\ \A i \in (k + 1)..Len(recentEvents') :
                       recentEvents'[i] = recentEvents[i - k] ]_vars

\* C3 witness: the history is full, more than 50 entries have been added, and the
\* newest transaction sits in front of an older one.
C3_Witness ==
    /\ Len(recentEvents) = HistoryCap
    /\ feedPos > 2 * HistoryCap
    /\ recentEvents[1].txHash = feedPos
    /\ recentEvents[HistoryCap].txHash < recentEvents[1].txHash

\* C8 as stated: a fresh reducer fed the same classifiable event twice has invoked
\* exactly one domain callback.
C8_ExactlyOneCallback ==
    (/\ lastCall.n = 2 /\ lastCall.repeat
     /\ Classifiable(lastCall.event) /\ Len(handled) = 1)
    => Len(callbacks) = 1

\* C8 amended: a fresh reducer fed the same classifiable event twice has invoked no
\* domain callback at all (the first feed is inside warm-up, the second a duplicate).
C8_NoCallbackForFirstEventTwice ==
    (/\ lastCall.n = 2 /\ lastCall.repeat
     /\ Classifiable(lastCall.event) /\ Len(handled) = 1)
    => callbacks = <<>>

\* C8 witness: the same classifiable event was fed twice to a fresh reducer, its entry
\* is in the history and the warm-up timer it started has fired.
C8_Witness ==
    /\ lastCall.n = 2 /\ lastCall.repeat
    /\ Classifiable(lastCall.event) /\ Len(handled) = 1
    /\ Len(recentEvents) = 1
    /\ ~isFirstConnection

\* C9: the first call of a fresh reducer, with a package event of type
\* PACKAGE_ID::document_system::DocumentUploaded, leaves exactly one entry in
\* recentEvents: a DocumentUploaded event with the payload's document_id, uploader,
\* title, walrus_blob_id and category, and the envelope's timestamp when the payload
\* has none.
C9_FirstUploadYieldsOneEntry ==
    [][ (/\ lastCall.n = 0 /\ lastCall'.n = 1
         /\ lastCall'.event.type = "package_event"
         /\ lastCall'.event.data.event_type = TypeOf(UploadedName))
        => (/\ Len(recentEvents') = 1
            /\ recentEvents'[1].eventType = "DocumentUploaded"
            /\ recentEvents'[1].txHash = lastCall'.event.tx_hash
            /\ \A f \in {"document_id", "uploader", "title", "walrus_blob_id", "category"} :
                   recentEvents'[1].data[f] = lastCall'.event.data.contents[f]
            /\ "timestamp" \notin DOMAIN lastCall'.event.data.contents
                 => recentEvents'[1].data.timestamp = Num(lastCall'.event.timestamp_ms)) ]_vars

\* C9 witness: the spec's scenario has run (d1, 0xU, Notes, b1, Math).
C9_Witness ==
    /\ lastCall.n = 1
    /\ lastCall.event = EventShapes(1)[1]
    /\ Len(recentEvents) = 1
    /\ recentEvents[1].data.title = Str("Notes")
    /\ recentEvents[1].data.walrus_blob_id = Str("b1")

\* C6: between successful opens the n-th scheduled reconnect (n = 0, 1, 2, ...) waits
\* 1000, 2000, 4000, 8000, 16000, 30000, 30000, ... ms, and the attempt counter equals
\* the number of reconnects scheduled since the last open (it is not capped).
C6_BackoffSequence ==
    /\ reconnectAttempts = Len(delays)
    /\ \A i \in 1..Len(delays) :
           delays[i] = IF i <= 5 THEN <<1000, 2000, 4000, 8000, 16000>>[i] ELSE 30000
    /\ lastOp.op = "error" =>
           \E t \in timers : t.id = reconnectTimeoutRef /\ t.delay = delays[Len(delays)]

\* C6 witness: seven consecutive failures; the sixth and seventh reconnects wait 30 s.
C6_Witness ==
    /\ Len(delays) = 7
    /\ delays[5] = 16000 /\ delays[6] = 30000 /\ delays[7] = 30000
    /\ reconnectAttempts = 7
    /\ \E t \in timers : t.delay = 30000

\* C7: a reconnect timer that is pending when disconnect() is called never fires, so a
\* timer callback that runs while the status is 'disconnected' cannot exist: no step of
\* a reconnect timer opens a channel or moves the status away from 'disconnected'.
C7_DisconnectCancelsPendingReconnect ==
    [][ (status = "disconnected" /\ lastOp'.op = "timer" /\ timers' # timers)
        => (status' = "disconnected" /\ channels' = channels) ]_vars

\* C10 as stated: connect() called while a live channel is held changes neither the
\* channel nor the status.
C10_ConnectIsNoOpWhenLive ==
    [][ (/\ lastOp'.op = "connect" /\ lastOp'.ref = eventSourceRef
         /\ \E ch \in channels : ch.id = eventSourceRef)
        => (channels' = channels /\ eventSourceRef' = eventSourceRef
              /\ status' = status) ]_vars

\* C10 amended: connect() called while a live channel is held closes that channel,
\* creates a new one that replaces it in eventSourceRef, and sets the status to
\* 'connecting'; the attempt counter, lastError and the pending timers stay as they are.
C10_ConnectReplacesLiveChannel ==
    [][ (/\ lastOp'.op = "connect" /\ lastOp'.ref = eventSourceRef
         /\ \E ch \in channels : ch.id = eventSourceRef)
        => (/\ \A ch \in channels' : ch.id # eventSourceRef
            /\ created' = created + 1
            /\ eventSourceRef' = created'
            /\ \E ch \in channels' : ch.id = eventSourceRef' /\ ch.readyState = "connecting"
            /\ status' = "connecting"
            /\ reconnectAttempts' = reconnectAttempts
            /\ lastError' = lastError
            /\ timers' = timers) ]_vars

\* C10 witness: connect() was called while the client held an open channel; that
\* channel is gone and a newer one is connecting.
C10_Witness ==
    /\ lastOp.op = "connect"
    /\ lastOp.ref # 0
    /\ eventSourceRef = created
    /\ eventSourceRef # lastOp.ref
    /\ \A ch \in channels : ch.id # lastOp.ref
    /\ status = "connecting"

\* a mirror's answer that carries a usable blob identifier
HasId(obj) == "blobId" \in DOMAIN obj /\ obj.blobId # Str("")
UsableAnswer(r) ==
    /\ r.kind = "http" /\ r.ok /\ r.body # InvalidJson
    /\ \/ /\ "newlyCreated" \in DOMAIN r.body
          /\ "blobObject" \in DOMAIN r.body.newlyCreated
          /\ HasId(r.body.newlyCreated.blobObject)
       \/ "alreadyCertified" \in DOMAIN r.body /\ HasId(r.body.alreadyCertified)
       \/ HasId(r.body)

\* the failure reason of a mirror's answer that carries none
ReasonOf(r) ==
    CASE r.kind = "reject" /\ r.isError -> Error(<<r.reason>>)
      [] r.kind = "reject" /\ ~r.isError -> Error(<<"String(", r.reason, ")">>)
      [] r.kind = "http" /\ ~r.ok -> Error(<<"HTTP ", r.status, ": ", r.text>>)
      [] r.kind = "http" /\ r.ok /\ r.body = InvalidJson -> Error(<<"SyntaxError">>)
      [] OTHER -> Error(<<"Blob ID could not be retrieved">>)

\* C4: no request follows a usable answer, and the call returns the identifier of the
\* first mirror that gave one: with k answers received, answers 1..k-1 were unusable,
\* the requests went to mirrors 1..k in order, and a returned call holds mirror k's id.
C4_FirstUsableMirrorWins ==
    /\ \A j \in 1..(Len(answers) - 1) : ~UsableAnswer(answers[j])
    /\ upRequests = SubSeq(PROXY_ENDPOINTS, 1,
                           Len(answers) + (IF upPc = "awaiting" THEN 1 ELSE 0))
    /\ (upPc \in {"running", "awaiting"} =>
           \A j \in 1..Len(answers) : ~UsableAnswer(answers[j]))
    /\ (upPc = "returned" =>
           /\ UsableAnswer(answers[Len(answers)])
           /\ upResult = Str(BlobIds[Len(answers)])
           /\ walrusBlobId = upResult)
    /\ (upPc = "thrown" => \A j \in 1..Len(answers) : ~UsableAnswer(answers[j]))

\* C4 witness: mirrors 1 and 2 failed, mirror 3 succeeded; three requests, its id returned.
C4_Witness ==
    /\ upPc = "returned"
    /\ Len(answers) = 3
    /\ upRequests = <<"/walrus-api", "/walrus-api-2", "/walrus-api-3">>
    /\ upResult = Str("blob-3")
    /\ ~UsableAnswer(answers[1]) /\ ~UsableAnswer(answers[2])

\* C5: a call that throws has asked every mirror exactly once, in order, got no usable
\* answer, and throws the failure reason of the last mirror; it returns no identifier.
C5_AllFailedThrowsLastReason ==
    upPc = "thrown" =>
        /\ upRequests = PROXY_ENDPOINTS
        /\ Len(answers) = NumMirrors
        /\ \A j \in 1..NumMirrors : ~UsableAnswer(answers[j])
        /\ upResult = ReasonOf(answers[NumMirrors])
        /\ walrusError = upResult.message
        /\ walrusUploadStatus = "error"

\* C5 witness: all four mirrors failed for different reasons; the error thrown is the
\* fourth mirror's.
C5_Witness ==
    /\ upPc = "thrown"
    /\ answers[1].kind = "reject"
    /\ answers[2].kind = "http" /\ ~answers[2].ok
    /\ answers[3].kind = "http" /\ answers[3].ok
    /\ answers[4].kind = "http" /\ ~answers[4].ok
    /\ upResult = Error(<<"HTTP ", "504", ": ", "unavailable">>)

\* C11: with no API key (empty, or the placeholder) connect() only sets the status to
\* 'disconnected': no channel is ever created, no reconnect timer is ever scheduled, no
\* error is recorded, onError (called only by onerror) never runs, and the status is
\* 'disconnected' in every reachable state.
Unconfigured == apiKey = "" \/ apiKey = "your_surflux_api_key_here"
C11_NoKeyStaysDisconnected ==
    Unconfigured =>
        /\ status = "disconnected"
        /\ channels = {} /\ created = 0 /\ eventSourceRef = 0
        /\ timers = {} /\ reconnectTimeoutRef = 0
        /\ lastError = "null" /\ reconnectAttempts = 0 /\ delays = <<>>
        /\ lastOp.op \notin {"open", "error", "timer"}

\* C11 witness: connect() has been called in a build with the placeholder key.
C11_Witness ==
    apiKey = "your_surflux_api_key_here" /\ lastOp.op = "connect" /\ enabled

\* C12: onopen sets the status to 'connected', lastError to null and the attempt counter
\* to 0, so the first channel error after an open schedules its reconnect after exactly
\* 1000 ms, whatever number of failures preceded the open.
C12_OpenResetsBackoff ==
    /\ [][ lastOp'.op = "open" =>
              status' = "connected" /\ lastError' = "null" /\ reconnectAttempts' = 0 ]_vars
    /\ [][ (lastOp.op = "open" \/ delays = <<>>) /\ lastOp'.op = "error" /\ lastOp' # lastOp =>
              /\ \E t \in timers' \ timers :
                     t.id = reconnectTimeoutRef' /\ t.delay = BackoffBaseMs
              /\ reconnectAttempts' = 1 ]_vars

\* C12 witness: a channel failed right after an open that followed at least two failures
\* (the 2000 ms timer of the second failure is still pending).
C12_Witness ==
    /\ lastOp.op = "error"
    /\ delays = <<BackoffBaseMs>>
    /\ \E t \in timers : t.delay = 2 * BackoffBaseMs
    /\ \E t \in timers : t.id = reconnectTimeoutRef /\ t.delay = BackoffBaseMs

\* C13: a message whose data is not JSON is dropped on its own: onEvent (handleEvent) is
\* not called for it, the status, lastError, attempt counter, channel and timers are
\* unchanged, and the channel stays open, so that a later message on it is delivered.
Dropped(op) == op.op = "message" /\ ~op.json
C13_ParseFailureDropsOneMessage ==
    /\ [][ Dropped(lastOp') /\ lastOp' # lastOp =>
              /\ UNCHANGED reducerVars
              /\ UNCHANGED <<status, lastError, reconnectAttempts, eventSourceRef, channels,
                             created, timers, reconnectTimeoutRef>> ]_vars
    /\ [](Dropped(lastOp) =>
              /\ status = "connected"
              /\ \E ch \in channels : ch.id = eventSourceRef /\ ch.readyState = "open")
    /\ [][ Dropped(lastOp) /\ lastOp'.op = "message" /\ ~Dropped(lastOp') =>
              /\ lastOp'.ref = lastOp.ref
              /\ lastCall'.n = lastCall.n + 1
              /\ JsonOf(lastCall'.event) \in WireData ]_vars

\* C13 witness: after a dropped message, the next message of the same channel reached
\* handleEvent and was recorded.
C13_Witness ==
    /\ lastOp.op = "message" /\ lastOp.json /\ lastOp.afterDrop
    /\ lastCall.n = 1
    /\ Len(recentEvents) = 1

\* C14: the status changes only along disconnected -> connecting, connecting -> connected,
\* connected -> error, error -> connecting, and any -> disconnected.
DocumentedTransitions ==
    {<<"disconnected", "connecting">>, <<"connecting", "connected">>,
     <<"connected", "error">>, <<"error", "connecting">>}
     \cup {<<s, "disconnected">> : s \in {"connecting", "connected", "error"}}
C14_OnlyDocumentedTransitions ==
    [][status' # status => <<status, status'>> \in DocumentedTransitions]_vars

\* C14 as amended: the status changes only to 'connecting' when connect() runs with a
\* credential (from the effect, from the hook's user, or from a reconnect timer; from any
\* other status), to 'connected' from 'connecting' when the channel opens, to 'error' from
\* 'connecting' or 'connected' when the channel errors, and to 'disconnected' when
\* disconnect() runs.
C14_StatusTransitions ==
    [][status' # status =>
         /\ status' = "connecting" =>
                lastOp'.op \in {"connect", "effect", "timer"} /\ ~Unconfigured
         /\ status' = "connected" => status = "connecting" /\ lastOp'.op = "open"
         /\ status' = "error" =>
                status \in {"connecting", "connected"} /\ lastOp'.op = "error"
         /\ status' = "disconnected" => lastOp'.op \in {"disconnect", "effect"} ]_vars

\* C14 witness: a channel failed before it ever opened (the second of two failures with
\* no open between them), taking the status from 'connecting' to 'error'.
C14_Witness ==
    status = "error" /\ lastOp.op = "error" /\ Len(delays) = 2

\* C15: after a channel error whose reconnect timer was created by an enabled client,
\* a new connection attempt eventually follows (status 'connecting', a new channel held),
\* whatever the number of consecutive failures so far, unless disconnect() intervenes;
\* a timer fired for a client that was not enabled opens nothing.
RetryPending ==
    /\ status = "error"
    /\ created < MaxLiveChannels
    /\ \E t \in timers : t.id = reconnectTimeoutRef /\ t.enabled
C15_ErrorIsRetried ==
    /\ RetryPending ~> \/ status = "connecting" /\ eventSourceRef # 0
                       \/ status = "disconnected"
    /\ [][ lastOp'.op = "timer" /\ timers' # timers /\ (\A t \in timers \ timers' : ~t.enabled)
              => UNCHANGED <<status, channels, created, eventSourceRef>> ]_vars

\* C15 witness: the timer of the fourth consecutive failure has fired and opened a channel.
C15_Witness ==
    /\ lastOp.op = "timer"
    /\ status = "connecting"
    /\ Len(delays) = 4 /\ reconnectAttempts = 4
    /\ \E ch \in channels : ch.id = eventSourceRef /\ ch.id = created

\* C16: no domain callback is invoked from construction until the 2000 ms timer started
\* by the first processed event fires; a callback is only ever invoked inside the
\* handleEvent call of its own event (nothing processed in the window is delivered
\* later); and once the window is over every classifiable event with an unseen tx_hash
\* triggers the callback of its variant.
NewCallbacks == SubSeq(callbacks', Len(callbacks) + 1, Len(callbacks'))
C16_WarmupSuppressesCallbacks ==
    /\ [](isFirstConnection => callbacks = <<>>)
    /\ [](/\ Len(warmupTimers) <= Len(handled)
          /\ \A i \in 1..Len(warmupTimers) : warmupTimers[i] = WarmupMs
          /\ handled = <<>> => isFirstConnection)
    /\ [][ isFirstConnection' # isFirstConnection =>
              /\ isFirstConnection /\ handled # <<>>
              /\ warmupTimers # <<>> /\ warmupTimers' = Tail(warmupTimers)
              /\ lastCall' = lastCall ]_vars
    /\ [][ callbacks' # callbacks =>
              /\ ~isFirstConnection
              /\ lastCall'.n = lastCall.n + 1
              /\ Len(callbacks') > Len(callbacks)
              /\ SubSeq(callbacks', 1, Len(callbacks)) = callbacks
              /\ \A i \in 1..Len(NewCallbacks) :
                     NewCallbacks[i].txHash = lastCall'.event.tx_hash ]_vars
    /\ [][ /\ ~isFirstConnection
           /\ lastCall'.n = lastCall.n + 1
           /\ Classifiable(lastCall'.event)
           /\ ~HasTxHash(processedTxHashes, lastCall'.event.tx_hash)
           => /\ Includes(lastCall'.event.data.event_type, UploadedName) =>
                    \E i \in 1..Len(NewCallbacks) :
                        /\ NewCallbacks[i].cb = "onDocumentUploaded"
                        /\ NewCallbacks[i].data.document_id
                               = lastCall'.event.data.contents.document_id
              /\ Includes(lastCall'.event.data.event_type, VotedName) =>
                    \E i \in 1..Len(NewCallbacks) :
                        /\ NewCallbacks[i].cb = "onDocumentVoted"
                        /\ NewCallbacks[i].data.document_id
                               = lastCall'.event.data.contents.document_id ]_vars

\* C16 witness: the first event was processed inside the window and never delivered, the
\* timer fired, and the second event triggered its callback.
C16_Witness ==
    /\ ~isFirstConnection
    /\ Len(handled) = 2 /\ handled[1] # handled[2]
    /\ Len(callbacks) = 1 /\ callbacks[1].txHash = handled[2]
    /\ Len(recentEvents) = 2

\* C17: after disconnect() has returned (the status is 'disconnected' in a configured
\* build) and until connect() is called again by the effect or by the hook's user, the
\* status stays 'disconnected', no channel exists or is created, and neither onEvent nor
\* onError runs.
C17_SilentAfterDisconnect ==
    [][ mounted /\ status = "disconnected" /\ lastOp'.op \notin {"connect", "effect"} =>
          /\ status' = "disconnected"
          /\ channels' = {} /\ eventSourceRef' = 0 /\ created' = created
          /\ lastOp' # lastOp => lastOp'.op \notin {"message", "error", "open"}
          /\ lastCall' = lastCall ]_vars

\* C18: when every mirror has failed, the result of the call carries the ordered
\* sequence of (endpoint, errorMessage) pairs, one per attempted mirror in attempt order.
C18_FailureCarriesAllAttempts ==
    upPc = "thrown" =>
        /\ "attempts" \in DOMAIN upResult
        /\ upResult.attempts =
               [j \in 1..Len(upRequests) |-> <<upRequests[j], ReasonOf(answers[j]).message>>]

\* C19: the stream client owns at most one channel: at most one EventSource is not
\* closed, and it is the one held in eventSourceRef; connect() leaves the channel it held
\* closed; onerror leaves its channel closed and the reference empty, with the reconnect
\* timer scheduled.
C19_AtMostOneChannel ==
    /\ [](/\ Cardinality(channels) <= 1
          /\ \A ch \in channels : ch.id = eventSourceRef
          /\ eventSourceRef # 0 => \E ch \in channels : ch.id = eventSourceRef)
    /\ [][ created' # created =>
              /\ lastOp'.op \in {"connect", "effect", "timer"}
              /\ channels' = {ch \in channels' : ch.id = created'}
              /\ \A ch \in channels : ch \notin channels' ]_vars
    /\ [][ lastOp' # lastOp /\ lastOp'.op = "error" =>
              /\ channels' = {} /\ eventSourceRef' = 0
              /\ \E t \in timers' : t.id = reconnectTimeoutRef' /\ t.id = lastOp'.ref ]_vars

\* C19 witness: a third channel was opened by connect() while the second was held, and is
\* the only one left.
C19_Witness ==
    /\ lastOp.op = "connect" /\ lastOp.ref = 2
    /\ created = 3
    /\ channels = {[id |-> 3, readyState |-> "connecting", enabled |-> enabled]}

\* C20: handleEvent has no effect at all on an event whose type is not 'package_event'
\* or whose event_type does not contain PACKAGE_ID: the seen-set, recentEvents and the
\* warm-up flag are unchanged, no warm-up timer is started and no callback is invoked,
\* also when its tx_hash has not been seen.
OutOfNamespace(e) ==
    e.type # "package_event" \/ ~Includes(e.data.event_type, PACKAGE_ID)
C20_FilteredEventHasNoEffect ==
    [][ lastCall'.n = lastCall.n + 1 /\ OutOfNamespace(lastCall'.event) =>
          UNCHANGED <<processedTxHashes, recentEvents, isFirstConnection, warmupTimers,
                      callbacks, handled>> ]_vars

\* C20 witness: after the warm-up, with one transaction seen, an event of another package
\* with a new tx_hash was handled and left no trace.
C20_Witness ==
    /\ lastCall.n = 2
    /\ lastCall.event.type = "package_event"
    /\ OutOfNamespace(lastCall.event)
    /\ ~isFirstConnection
    /\ Len(processedTxHashes) = 1
    /\ ~HasTxHash(processedTxHashes, lastCall.event.tx_hash)
    /\ Len(recentEvents) = 1

\* C21: clearEvents() empties both recentEvents and the seen-set and touches nothing of
\* the connection (status, channel, timers); the next package-scoped event is processed
\* as new, also when its tx_hash was handled before the clear.
ClearStep ==
    /\ lastCall' = lastCall /\ lastOp' = lastOp
    /\ recentEvents' # recentEvents \/ processedTxHashes' # processedTxHashes
C21_ClearResetsHistoryAndSeenSet ==
    /\ [][ ClearStep =>
              /\ recentEvents' = <<>> /\ processedTxHashes' = <<>>
              /\ UNCHANGED <<isFirstConnection, warmupTimers, callbacks>>
              /\ UNCHANGED streamVars ]_vars
    /\ [][ /\ lastCall'.n = lastCall.n + 1
           /\ processedTxHashes = <<>>
           /\ ~OutOfNamespace(lastCall'.event)
           => /\ handled' = Append(handled, lastCall'.event.tx_hash)
              /\ processedTxHashes' = <<lastCall'.event.tx_hash>>
              /\ Classifiable(lastCall'.event) =>
                     /\ recentEvents' # <<>>
                     /\ recentEvents'[1].txHash = lastCall'.event.tx_hash ]_vars

\* C21 witness: the same transaction was handled, cleared, and handled again as new,
\* while the channel stayed connected.
C21_Witness ==
    /\ handled = <<1, 1>>
    /\ Len(recentEvents) = 1 /\ recentEvents[1].txHash = 1
    /\ processedTxHashes = <<1>>
    /\ status = "connected" /\ created = 1

\* C22: a mirror that answers with HTTP success but a body with no identifier under
\* newlyCreated.blobObject.blobId, alreadyCertified.blobId or blobId is treated like any
\* failed mirror: the loop records its failure and moves to the next mirror with the
\* upload state untouched; a returned identifier is never empty or undefined.
NoIdAnswer(r) == r.kind = "http" /\ r.ok /\ r.body # InvalidJson /\ ~UsableAnswer(r)
LastAnswer == answers'[Len(answers')]
C22_UnusableBodyIsAFailure ==
    /\ [](upPc = "returned" =>
              /\ upResult # Undefined /\ upResult # Str("")
              /\ upResult \in {Str(BlobIds[m]) : m \in 1..NumMirrors}
              /\ walrusBlobId = upResult)
    /\ [][ Len(answers') = Len(answers) + 1 /\ ~UsableAnswer(LastAnswer) =>
              /\ upPc' = "running"
              /\ upIdx' = upIdx + 1
              /\ upLastError' = ReasonOf(LastAnswer)
              /\ NoIdAnswer(LastAnswer) =>
                     upLastError' = Error(<<"Blob ID could not be retrieved">>)
              /\ UNCHANGED <<upResult, walrusUploading, walrusUploadStatus, walrusError,
                             walrusBlobId>> ]_vars

\* C22 witness: mirror 1 answered 200 with a newlyCreated object that has no blobObject,
\* mirror 2 answered 200 with an empty blobId, mirror 3 gave the identifier returned.
C22_Witness ==
    /\ upPc = "returned"
    /\ Len(answers) = 3
    /\ answers[1] = Http(TRUE, "200", "", [newlyCreated |-> [cost |-> Str("12")]])
    /\ answers[2] = Http(TRUE, "200", "", [blobId |-> Str("")])
    /\ upResult = Str("blob-3")

\* C23: within one uploadToWalrus call the requests go to the mirrors in the configured
\* order, each mirror at most once, and a request is sent only when every earlier
\* request of the call has been answered (at most one in flight); every call starts
\* again at the first mirror, whatever mirror served or failed the call before.
InFlight == Len(upRequests) - Len(answers)
C23_MirrorsSequentialInFixedOrder ==
    /\ [](/\ upRequests = SubSeq(PROXY_ENDPOINTS, 1, Len(upRequests))
          /\ InFlight \in {0, 1}
          /\ InFlight = 1 <=> upPc = "awaiting")
    /\ [][ Len(upRequests') > Len(upRequests) =>
              /\ InFlight = 0
              /\ upRequests' = Append(upRequests, PROXY_ENDPOINTS[Len(upRequests) + 1]) ]_vars
    /\ [][ upCalls' # upCalls =>
              /\ upPc \notin {"running", "awaiting"}
              /\ upRequests' = <<>> /\ answers' = <<>> /\ upIdx' = 1 ]_vars

\* C23 witness: the call before was served by the third mirror; the second call has its
\* first request in flight, to the first mirror.
C23_Witness ==
    /\ upCalls = 2
    /\ walrusBlobId = Str("blob-3")
    /\ upPc = "awaiting"
    /\ upRequests = <<"/walrus-api">>

\* C24: deduplication is keyed on tx_hash alone and precedes classification, so at most
\* one event per transaction reaches the history and the callbacks: two callback
\* invocations, or two history entries, with the same txHash come from one handleEvent call.
SameCall(log, i, j) == j = i + 1 /\ log[i] # log[j]
NamesMatched(e) ==
    (IF Includes(e.data.event_type, UploadedName) THEN 1 ELSE 0)
      + (IF Includes(e.data.event_type, VotedName) THEN 1 ELSE 0)
C26_FirstEventNeverTriggersCallback ==
    /\ [](handled = <<>> => isFirstConnection /\ warmupTimers = <<>> /\ callbacks = <<>>)
    /\ [][ handled = <<>> /\ handled' # handled => callbacks' = <<>> ]_vars
    /\ [][ warmupTimers' # warmupTimers /\ Len(warmupTimers') >= Len(warmupTimers) =>
              /\ handled' = Append(handled, lastCall'.event.tx_hash)
              /\ warmupTimers' = Append(warmupTimers, WarmupMs) ]_vars
    /\ [][ isFirstConnection /\ handled' # handled =>
              /\ callbacks' = callbacks
              /\ Len(recentEvents') =
                     Min(Len(recentEvents) + NamesMatched(lastCall'.event), HistoryCap)
              /\ NamesMatched(lastCall'.event) > 0 =>
                     recentEvents'[1].txHash = lastCall'.event.tx_hash ]_vars

\* C26 witness: two filtered-out events came first; the third call was the first event
\* processed: it is in recentEvents and no callback ran.
C26_Witness ==
    /\ lastCall.n = 3
    /\ handled = <<lastCall.event.tx_hash>>
    /\ Classifiable(lastCall.event)
    /\ Len(recentEvents) = NamesMatched(lastCall.event)
    /\ recentEvents[1].txHash = lastCall.event.tx_hash
    /\ callbacks = <<>> /\ isFirstConnection
    /\ Len(warmupTimers) = 1

\* C27: at most one reconnect timer is pending in every reachable state, and it is the
\* one whose handle reconnectTimeoutRef holds, so that the clearTimeout of disconnect()
\* covers every pending reconnect.
C27_AtMostOneTimerPending ==
    /\ Cardinality(timers) <= 1
    /\ \A t \in timers : t.id = reconnectTimeoutRef

\* C28: the reconnect-attempt counter changes only by a channel error (+1) and by a
\* successful open (to 0); connect() and disconnect(), from the effect, the user or a
\* timer, leave it unchanged, so the delay of the next failure after a
\* disconnect()/connect() cycle with no open continues the backoff sequence.
C28_CounterChangedOnlyByErrorAndOpen ==
    /\ [][ reconnectAttempts' # reconnectAttempts =>
              \/ lastOp'.op = "error" /\ reconnectAttempts' = reconnectAttempts + 1
              \/ lastOp'.op = "open" /\ reconnectAttempts' = 0 ]_vars
    /\ [][ lastOp' # lastOp /\ lastOp'.op = "error" =>
              /\ Len(delays') = reconnectAttempts'
              /\ \E t \in timers' :
                     /\ t.id = reconnectTimeoutRef'
                     /\ t.delay = Min(BackoffBaseMs * 2^reconnectAttempts, BackoffCapMs) ]_vars

\* C28 witness: one failure, then the effect re-ran (disconnect(), connect()) with no open,
\* and the channel it created failed: its reconnect waits 2000 ms.
C28_Witness ==
    /\ lastOp.op = "error" /\ lastOp.after = "effect"
    /\ delays = <<BackoffBaseMs, 2 * BackoffBaseMs>>
    /\ reconnectAttempts = 2
    /\ timers = {[id |-> 2, delay |-> 2 * BackoffBaseMs, enabled |-> TRUE]}

\* C29: connects, disconnects, opens, channel errors and reconnect timers leave the
\* reducer's state (seen-set, recentEvents, warm-up flag, timers) unchanged, so an event
\* the server replays after a reconnect is discarded while its tx_hash is in the
\* seen-set; and the warm-up flag, once cleared, is never set again, not by clearEvents()
\* either.
StreamStep ==
    /\ lastOp' # lastOp
    /\ lastOp'.op \in {"effect", "connect", "disconnect", "open", "error", "timer"}
C29_ReducerSurvivesReconnects ==
    /\ [][ StreamStep => UNCHANGED reducerVars ]_vars
    /\ [][ ~isFirstConnection => ~isFirstConnection' ]_vars
    /\ [][ /\ lastOp' # lastOp /\ lastOp'.op = "message" /\ lastOp'.json
           /\ HasTxHash(processedTxHashes, lastCall'.event.tx_hash)
           => /\ lastCall'.n = lastCall.n + 1
              /\ UNCHANGED <<processedTxHashes, recentEvents, isFirstConnection,
                             warmupTimers, callbacks, handled>> ]_vars

\* C29 witness: an event was handled on the first channel and the warm-up ended; the
\* channel failed, the second channel opened, and its first message, the same event
\* again, was discarded.
C29_Witness ==
    /\ lastOp.op = "message" /\ lastOp.json /\ lastOp.afterOpen /\ lastOp.ref = 2
    /\ reconnectAttempts = 0
    /\ lastCall.n = 2 /\ lastCall.repeat
    /\ handled = <<lastCall.event.tx_hash>>
    /\ Len(recentEvents) = 1
    /\ ~isFirstConnection /\ callbacks = <<>>

\* C30: a total failure of uploadToWalrus sets walrusUploading to false and
\* walrusUploadStatus to 'error' and leaves uploadForm.walrusBlobId as it was, so the id
\* of an earlier successful upload stays in the form and handleUploadDocument can still
\* pass it to uploadDoc; walrusBlobId changes only when an upload succeeds (to its id)
\* and when uploadDoc has resolved (to the empty string).
TotalFailure == upPc # "thrown" /\ upPc' = "thrown"
C30_FailureKeepsStaleBlobId ==
    /\ [][ TotalFailure =>
              /\ walrusUploading' = FALSE
              /\ walrusUploadStatus' = "error"
              /\ walrusBlobId' = walrusBlobId ]_vars
    /\ [][ walrusBlobId' # walrusBlobId =>
              \/ /\ upPc = "awaiting" /\ upPc' = "returned"
                 /\ Truthy(walrusBlobId') /\ walrusBlobId' = upResult'
              \/ /\ docPc = "submitting" /\ docPc' = "idle"
                 /\ walrusBlobId' = Str("")
                 /\ ledger' = Append(ledger, submitted[Len(submitted)].blobId) ]_vars
    /\ [](upPc = "thrown" /\ Truthy(walrusBlobId) /\ docPc = "idle"
              /\ Len(submitted) < MaxSubmits
            => ENABLED (handleUploadDocument /\ docPc' = "submitting"))

\* C30 witness: the first file's upload stored blob-1, the second file's upload failed on
\* every mirror, and handleUploadDocument then passed blob-1 to uploadDoc with the second
\* file selected.
C30_Witness ==
    /\ upCalls = 2 /\ upPc = "thrown"
    /\ ~walrusUploading /\ walrusUploadStatus = "error"
    /\ selectedFile = 2
    /\ walrusBlobId = Str("blob-1")
    /\ docPc = "submitting"
    /\ submitted = <<[blobId |-> Str("blob-1"), file |-> 2]>>

====
